---- MODULE Spec2Model ----
(***************************************************************************)
(* IPv4 + ICMP Echo Request construction (c/main.c): the Internet          *)
(* checksum compute_checksum() and the step-by-step encapsulation done by  *)
(* main() in a 1024-byte packet buffer.                                    *)
(*                                                                         *)
(* Memory is modelled byte by byte.  A struct or buffer is a function from *)
(* byte offsets 0..n-1 to octets; the region a pointer is passed with is a *)
(* sequence of octets.  The host is little-endian (the documented run in   *)
(* README.md prints F3BD for the wire bytes BD F3): a native uint16_t load *)
(* of the bytes b0 b1 yields b0 + 256*b1.                                  *)
(*                                                                         *)
(* TLC integers are 32-bit signed, so the uint32_t accumulator `sum` is    *)
(* kept as its two 16-bit halves [hi, lo]; arithmetic on it is modulo 2^32.*)
(***************************************************************************)
EXTENDS Integers, Sequences, FiniteSets, TLC

\* ------------------------------------------------------------------------
\* Bounds of the model
\* ------------------------------------------------------------------------
\* longest byte sequence enumerated as input of compute_checksum
MaxLen == 5
\* longest payload enumerated by the builder (besides the reference HELLO)
MaxPayloadLen == 3
\* the most bytes of a long input still to be read when a call is taken up
MaxTail == 3

\* ------------------------------------------------------------------------
\* Program constants
\* ------------------------------------------------------------------------
IP_PROTO_ICMP == 1
ECHO_REPLY == 0
ECHO == 8
IP_PROTO_TCP == 6
IP_PROTO_UDP == 17
\* sizeof(struct ipv4_header), sizeof(struct icmp_header), sizeof(struct icmp_echo)
IPV4_HEADER_SIZE == 20
ICMP_HEADER_SIZE == 4
ICMP_ECHO_SIZE == 4
\* uint8_t packet_buffer[1024]
BufSize == 1024
\* number of values of a uint16_t
U16 == 256 * 256

\* offsetof(struct ipv4_header, ...), Test 1
OFF_VERSION_IHL == 0
OFF_TYPE_OF_SERVICE == 1
OFF_TOTAL_LENGTH == 2
OFF_IDENTIFICATION == 4
OFF_FLAGS_FRAG_OFFSET == 6
OFF_TIME_TO_LIVE == 8
OFF_PROTOCOL == 9
OFF_HEADER_CHECKSUM == 10
OFF_SRC_ADDR == 12
OFF_DST_ADDR == 16
\* struct icmp_header: type, code, checksum
OFF_ICMP_TYPE == 0
OFF_ICMP_CODE == 1
OFF_ICMP_CHECKSUM == 2
\* struct icmp_echo: identifier, sequence
OFF_ECHO_IDENTIFIER == 0
OFF_ECHO_SEQUENCE == 2

\* ------------------------------------------------------------------------
\* Byte order and memory access (little-endian host)
\* ------------------------------------------------------------------------
\* the uint16_t a little-endian host reads from two consecutive bytes
NativeWord(b0, b1) == b0 + 256 * b1

\* mutant: the conversion to network order forgotten
htons_missing(x) == x % (256 * 256)

\* htons()/ntohs() on a little-endian host: swap the two bytes of a uint16_t;
\* the argument is first converted to uint16_t
htons(x) == ((x % U16) % 256) * 256 + ((x % U16) \div 256)
ntohs(x) == ((x % U16) % 256) * 256 + ((x % U16) \div 256)

\* read / write a uint16_t field of a packed struct at byte offset off
Load16(mem, off) == NativeWord(mem[off], mem[off + 1])
Store16(mem, off, v) == [mem EXCEPT ![off] = v % 256, ![off + 1] = (v \div 256) % 256]

\* read / write a uint8_t field
Load8(mem, off) == mem[off]
Store8(mem, off, v) == [mem EXCEPT ![off] = v % 256]

\* the bytes a pointer into mem at offset base designates, as a sequence
Region(mem, base, n) == [i \in 1..n |-> mem[base + i - 1]]

\* ------------------------------------------------------------------------
\* compute_checksum(): 32-bit accumulator arithmetic
\* ------------------------------------------------------------------------
\* uint32_t sum = 0
ZeroSum == [hi |-> 0, lo |-> 0]

\* mutant: the accumulator declared uint16_t (addition wraps modulo 2^16)
AddWord16(sum, w) == [hi |-> 0, lo |-> (sum.lo + w) % U16]

\* sum += w   (w a uint16_t; uint32_t addition wraps modulo 2^32)
AddWord(sum, w) ==
    [hi |-> (sum.hi + ((sum.lo + w) \div U16)) % U16,
     lo |-> (sum.lo + w) % U16]

\* mutant: the byte order "fixed" inside the function (ntohs of every word)
LoadWordSwapped(data, byte_off) == NativeWord(data[byte_off + 2], data[byte_off + 1])

\* the uint16_t read by *word_ptr when word_ptr is byte_off bytes past data
LoadWord(data, byte_off) == NativeWord(data[byte_off + 1], data[byte_off + 2])

\* mutant: the odd byte copied into the second physical byte of padded_word
PaddedWordHigh(b) == NativeWord(0, b)

\* padded_word = 0; ((uint8_t *)&padded_word)[0] = b;  as a native uint16_t
PaddedWord(b) == NativeWord(b, 0)

\* mutant: the carry dropped (sum & 0xFFFF) instead of added back
FoldOnceDropsCarry(sum) == [hi |-> 0, lo |-> sum.lo]

\* sum = (sum & 0xFFFF) + (sum >> 16)
FoldOnce(sum) ==
    [hi |-> (sum.lo + sum.hi) \div U16,
     lo |-> (sum.lo + sum.hi) % U16]

\* mutant: the complement forgotten
InvertMissing(sum) == sum.lo

\* (uint16_t)~sum
Invert(sum) == (U16 - 1) - sum.lo

\* while (length > 1) { sum += *word_ptr++; length -= 2; }
RECURSIVE SumWords(_, _, _, _)
SumWords(data, word_ptr, length, sum) ==
    IF length > 1
    THEN SumWords(data, word_ptr + 2, length - 2, AddWord(sum, LoadWord(data, word_ptr)))
    ELSE [word_ptr |-> word_ptr, length |-> length, sum |-> sum]

\* while (sum >> 16) sum = (sum & 0xFFFF) + (sum >> 16);
RECURSIVE FoldCarries(_)
FoldCarries(sum) == IF sum.hi # 0 THEN FoldCarries(FoldOnce(sum)) ELSE sum

\* uint16_t compute_checksum(const void *data, size_t length): the native
\* uint16_t value returned for the length bytes starting at data
compute_checksum(data, length) ==
    LET w == SumWords(data, 0, length, ZeroSum)
        s == IF w.length = 1
             THEN AddWord(w.sum, PaddedWord(data[w.word_ptr + 1]))
             ELSE w.sum
    IN  Invert(FoldCarries(s))

\* ------------------------------------------------------------------------
\* State
\* ------------------------------------------------------------------------
VARIABLES
    \* one call of compute_checksum, statement by statement
    ck_pc,      \* "idle", "loop", "fold", "done"
    ck_data,    \* the bytes at data
    ck_length,  \* length (remaining)
    ck_ptr,     \* word_ptr, in bytes past data
    ck_sum,     \* sum
    ck_ret,     \* the returned uint16_t
    \* main()
    pc,             \* the statement main() is at
    ndebug,         \* whether assert() is compiled out (NDEBUG)
    ident,          \* the value given to identification
    ttl,            \* the value given to time_to_live
    src,            \* the dotted quad given to inet_pton for src_addr
    dst,            \* the dotted quad given to inet_pton for dst_addr
    packet,         \* struct ipv4_header packet, byte by byte
    packet_buffer,  \* uint8_t packet_buffer[1024]
    dummy_checksum, \* Test 12
    odd_checksum,   \* Test 19
    payload_data,   \* the bytes payload_data points to
    payload_len,    \* payload_len
    wire,           \* the bytes the final loop prints
    history,        \* the statements run so far on total_length and the checksum fields
    \* the transport driver, one request
    drv_state,  \* "Idle", "Sending", "Listening", "Matched", "Failed"
    drv_error,  \* "none", "TransmitError"
    request,    \* the datagram to send
    network,    \* the datagrams the raw socket may deliver
    sends,      \* the number of sends made
    sent,       \* what the last send returned (-1: an error)
    rx,         \* the bytes received last
    result,     \* the payload returned to the caller
    \* the header codec, one header
    hc_pc,      \* "fields", "encoded", "decoded"
    hc_fields,  \* the field values to encode
    hc_bytes,   \* the 20 bytes of the encoding
    hc_decoded  \* the field values decoded from them

ck_vars == <<ck_pc, ck_data, ck_length, ck_ptr, ck_sum, ck_ret>>

in_vars == <<ndebug, ident, ttl, src, dst>>

main_vars == <<pc, ndebug, ident, ttl, src, dst, packet, packet_buffer,
               dummy_checksum, odd_checksum, payload_data, payload_len, wire, history>>

drv_vars == <<drv_state, drv_error, request, network, sends, sent, rx, result>>

codec_vars == <<hc_pc, hc_fields, hc_bytes, hc_decoded>>

vars == <<ck_pc, ck_data, ck_length, ck_ptr, ck_sum, ck_ret,
          pc, ndebug, ident, ttl, src, dst, packet, packet_buffer,
          dummy_checksum, odd_checksum, payload_data, payload_len, wire, history,
          drv_state, drv_error, request, network, sends, sent, rx, result, hc_pc, hc_fields, hc_bytes, hc_decoded>>

\* ------------------------------------------------------------------------
\* Inputs of the checksum engine
\* ------------------------------------------------------------------------
\* octets the enumerated inputs are made of
CkOctets == {0, 1, 72, 255}

\* dummy_data (Test 12) and odd_dummy (Test 19)
DummyData == <<255, 0, 1, 255, 0, 2>>
OddDummy == <<255, 0, 1, 255, 72>>

CkInputs ==
    UNION {[1..n -> CkOctets] : n \in 0..MaxLen} \cup {DummyData, OddDummy}

\* ------------------------------------------------------------------------
\* compute_checksum as a state machine
\* ------------------------------------------------------------------------
\* main() before its first statement
MainStart ==
    /\ pc = "start"
    /\ packet = [i \in 0..(IPV4_HEADER_SIZE - 1) |-> 0]
    /\ packet_buffer = [i \in 0..(BufSize - 1) |-> 0]
    /\ dummy_checksum = 0
    /\ odd_checksum = 0
    /\ payload_data = <<>>
    /\ payload_len = 0
    /\ wire = <<>>
    /\ history = <<>>

\* no request made of the transport driver
DrvIdle ==
    /\ drv_state = "Idle"
    /\ drv_error = "none"
    /\ request = <<>>
    /\ network = {}
    /\ sends = 0
    /\ sent = 0
    /\ rx = <<>>
    /\ result = <<>>

\* no header given to the codec
CodecIdle ==
    /\ hc_pc = "idle"
    /\ hc_fields = <<>>
    /\ hc_bytes = <<>>
    /\ hc_decoded = <<>>

\* the values main() writes: 0xBEEF, 64, "127.0.0.1", 0x1234, 0x0001, "HELLO"
RefIdent == 48879
RefTtl == 64
Loopback == <<127, 0, 0, 1>>
RefIdentifier == 4660
RefSequence == 1
Hello == <<72, 69, 76, 76, 79>>

CkInit ==
    /\ MainStart
    /\ DrvIdle
    /\ CodecIdle
    /\ DrvIdle
    /\ CodecIdle
    /\ ndebug = FALSE
    /\ ident = RefIdent
    /\ ttl = RefTtl
    /\ src = Loopback
    /\ dst = Loopback
    /\ ck_data \in CkInputs
    /\ ck_length = Len(ck_data)
    /\ ck_ptr = 0
    /\ ck_sum = ZeroSum
    /\ ck_pc = "loop"
    /\ ck_ret = 0

\* one iteration of while (length > 1)
CkSumWord ==
    /\ ck_pc = "loop"
    /\ ck_length > 1
    /\ ck_sum' = AddWord(ck_sum, LoadWord(ck_data, ck_ptr))
    /\ ck_ptr' = ck_ptr + 2
    /\ ck_length' = ck_length - 2
    /\ UNCHANGED <<ck_pc, ck_data, ck_ret>>
    /\ UNCHANGED <<main_vars, drv_vars, codec_vars>>

\* loop exit, then if (length == 1) { ... sum += padded_word; }
CkOddByte ==
    /\ ck_pc = "loop"
    /\ ck_length <= 1
    /\ ck_sum' = IF ck_length = 1
                 THEN AddWord(ck_sum, PaddedWord(ck_data[ck_ptr + 1]))
                 ELSE ck_sum
    /\ ck_pc' = "fold"
    /\ UNCHANGED <<ck_data, ck_length, ck_ptr, ck_ret>>
    /\ UNCHANGED <<main_vars, drv_vars, codec_vars>>

\* one iteration of while (sum >> 16)
CkFold ==
    /\ ck_pc = "fold"
    /\ ck_sum.hi # 0
    /\ ck_sum' = FoldOnce(ck_sum)
    /\ UNCHANGED <<ck_pc, ck_data, ck_length, ck_ptr, ck_ret>>
    /\ UNCHANGED <<main_vars, drv_vars, codec_vars>>

\* return (uint16_t)~sum
CkReturn ==
    /\ ck_pc = "fold"
    /\ ck_sum.hi = 0
    /\ ck_ret' = Invert(ck_sum)
    /\ ck_pc' = "done"
    /\ UNCHANGED <<ck_data, ck_length, ck_ptr, ck_sum>>
    /\ UNCHANGED <<main_vars, drv_vars, codec_vars>>

\* ------------------------------------------------------------------------
\* main(): inputs
\* ------------------------------------------------------------------------
\* main() writes literals; the statements that build the datagram are
\* modelled with those literals as inputs, each set holding the literal and
\* other values of the field.  The assertions that pin a literal (Test 13's
\* 0xBDF7, Test 16's 0x1234, Test 20's 33, ...) abort the runs on other
\* inputs unless the build defines NDEBUG, so both builds are modelled.
Idents == {RefIdent, 1}
Ttls == {RefTtl, 128}
Addrs == {Loopback, <<192, 168, 0, 1>>}
Identifiers == {RefIdentifier, 4661}
Sequences == {RefSequence, 2}

\* payloads that fit the buffer, and declared lengths that do not fit the
\* 16-bit total_length (65508 = 65536 - 28)
PayloadOctets == {0, 72, 255}
Payloads == UNION {[1..n -> PayloadOctets] : n \in 0..MaxPayloadLen} \cup {Hello}
OversizeLens == {65508}

\* what out-of-bounds reads may deliver
GarbageOctets == {0, 255}
GarbageWords == {0, 65535}

Init ==
    /\ MainStart
    /\ DrvIdle
    /\ CodecIdle
    /\ ndebug \in BOOLEAN
    /\ ident \in Idents
    /\ ttl \in Ttls
    /\ src \in Addrs
    /\ dst \in Addrs
    /\ ck_pc = "idle"
    /\ ck_data = <<>>
    /\ ck_length = 0
    /\ ck_ptr = 0
    /\ ck_sum = ZeroSum
    /\ ck_ret = 0

\* ------------------------------------------------------------------------
\* main(): helpers
\* ------------------------------------------------------------------------
\* assert(ok): the statement reached next, or the abort of a failed assertion
\* (an action evaluates the assertions of its block together: once one of them
\* fails the process is gone and its memory is no longer observed)
PassOrAbort(ok, next) == IF ndebug \/ ok THEN next ELSE "aborted"

\* mutant: the two nibbles the wrong way round
PackVersionIhlSwapped(version, ihl) == ((ihl * 16) % 256) + version

\* (version << 4) | ihl  as a uint8_t, for ihl below 16
PackVersionIhl(version, ihl) == ((version * 16) % 256) + ihl

\* inet_pton(AF_INET, quad, &field): the four octets in network order
inet_pton(mem, off, quad) ==
    [mem EXCEPT ![off] = quad[1], ![off + 1] = quad[2],
                ![off + 2] = quad[3], ![off + 3] = quad[4]]

\* ntohl(field) as the two 16-bit halves [hi, lo] of the host value
ntohl_field(mem, off) ==
    [hi |-> mem[off] * 256 + mem[off + 1], lo |-> mem[off + 2] * 256 + mem[off + 3]]

\* 0x7F000001
LoopbackHost == [hi |-> 32512, lo |-> 1]

\* the header fields written at lines 155-261 (packet) and 311-343 (ip), the
\* checksum field left at htons(0x0000)
FillHeader(mem) ==
    LET m1 == Store8(mem, OFF_VERSION_IHL, PackVersionIhl(4, 5))
        m2 == Store8(m1, OFF_TYPE_OF_SERVICE, 0)
        m3 == Store16(m2, OFF_TOTAL_LENGTH, htons(20))
        m4 == Store16(m3, OFF_IDENTIFICATION, htons(ident))
        m5 == Store16(m4, OFF_FLAGS_FRAG_OFFSET, htons(0))
        m6 == Store8(m5, OFF_TIME_TO_LIVE, ttl)
        m7 == Store8(m6, OFF_PROTOCOL, IP_PROTO_ICMP)
        m8 == Store16(m7, OFF_HEADER_CHECKSUM, htons(0))
        m9 == inet_pton(m8, OFF_SRC_ADDR, src)
    IN  inet_pton(m9, OFF_DST_ADDR, dst)

\* the assertions of Tests 3-10 on a filled header
HeaderAsserts(mem) ==
    /\ Load8(mem, OFF_VERSION_IHL) = 69
    /\ Load8(mem, OFF_TYPE_OF_SERVICE) = 0
    /\ ntohs(Load16(mem, OFF_TOTAL_LENGTH)) = 20
    /\ ntohs(Load16(mem, OFF_IDENTIFICATION)) = 48879
    /\ ntohs(Load16(mem, OFF_FLAGS_FRAG_OFFSET)) = 0
    /\ Load8(mem, OFF_TIME_TO_LIVE) = 64
    /\ Load8(mem, OFF_PROTOCOL) = IP_PROTO_ICMP
    /\ ntohs(Load16(mem, OFF_HEADER_CHECKSUM)) = 0
    /\ ntohl_field(mem, OFF_SRC_ADDR) = LoopbackHost
    /\ ntohl_field(mem, OFF_DST_ADDR) = LoopbackHost

\* ip->header_checksum = compute_checksum(ip, sizeof(struct ipv4_header))
StoreHeaderChecksum(mem) ==
    Store16(mem, OFF_HEADER_CHECKSUM,
            compute_checksum(Region(mem, 0, IPV4_HEADER_SIZE), IPV4_HEADER_SIZE))

\* mutant: the ICMP checksum computed, as for TCP and UDP, over the source and
\* destination addresses as well (a pseudo-header)
StoreIcmpChecksumWithAddresses(mem, icmp_length) ==
    Store16(mem, IPV4_HEADER_SIZE + OFF_ICMP_CHECKSUM,
            compute_checksum(Region(mem, OFF_SRC_ADDR, 8 + icmp_length), 8 + icmp_length))

\* icmp->checksum = compute_checksum(icmp, icmp_length), icmp at offset 20
StoreIcmpChecksum(mem, icmp_length) ==
    Store16(mem, IPV4_HEADER_SIZE + OFF_ICMP_CHECKSUM,
            compute_checksum(Region(mem, IPV4_HEADER_SIZE, icmp_length), icmp_length))

\* The statements of main() that write total_length or a checksum field, as
\* data, so that a block is both run and recorded in the order it is written.
\* ip->total_length = htons(total)
SetTotalLength(total) == [op |-> "total_length", arg |-> total]
\* ip->header_checksum = 0
ZeroHeaderChecksum == [op |-> "zero_ip", arg |-> 0]
\* ip->header_checksum = compute_checksum(ip, sizeof(struct ipv4_header))
ComputeHeaderChecksum == [op |-> "cksum_ip", arg |-> IPV4_HEADER_SIZE]
\* icmp->checksum = 0
ZeroIcmpChecksum == [op |-> "zero_icmp", arg |-> 0]
\* icmp->checksum = compute_checksum(icmp, icmp_length)
ComputeIcmpChecksum(icmp_length) == [op |-> "cksum_icmp", arg |-> icmp_length]

\* one statement on the memory it addresses
Exec(mem, stmt) ==
    CASE stmt.op = "total_length" -> Store16(mem, OFF_TOTAL_LENGTH, htons(stmt.arg))
      [] stmt.op = "zero_ip" -> Store16(mem, OFF_HEADER_CHECKSUM, 0)
      [] stmt.op = "cksum_ip" -> StoreHeaderChecksum(mem)
      [] stmt.op = "zero_icmp" -> Store16(mem, IPV4_HEADER_SIZE + OFF_ICMP_CHECKSUM, 0)
      [] stmt.op = "cksum_icmp" -> StoreIcmpChecksum(mem, stmt.arg)

\* the statements of a block, one after the other
RECURSIVE Run(_, _)
Run(mem, stmts) ==
    IF stmts = <<>> THEN mem ELSE Run(Exec(mem, Head(stmts)), Tail(stmts))

\* what a statement finds and leaves: for a compute_checksum call, the
\* checksum field inside the region it sums as it is when the call is made
\* (seen), the total_length of the header at that moment and the value stored
Observe(mem, stmt, block) ==
    [block |-> block, op |-> stmt.op, arg |-> stmt.arg,
     seen |-> CASE stmt.op = "cksum_ip" -> Load16(mem, OFF_HEADER_CHECKSUM)
                [] stmt.op = "cksum_icmp" -> Load16(mem, IPV4_HEADER_SIZE + OFF_ICMP_CHECKSUM)
                [] OTHER -> 0,
     total |-> ntohs(Load16(Exec(mem, stmt), OFF_TOTAL_LENGTH)),
     stored |-> CASE stmt.op = "cksum_ip" -> Load16(Exec(mem, stmt), OFF_HEADER_CHECKSUM)
                  [] stmt.op = "cksum_icmp" ->
                         Load16(Exec(mem, stmt), IPV4_HEADER_SIZE + OFF_ICMP_CHECKSUM)
                  [] OTHER -> 0]

\* the record of a block run on mem
RECURSIVE Trace(_, _, _)
Trace(mem, stmts, block) ==
    IF stmts = <<>> THEN <<>>
    ELSE <<Observe(mem, Head(stmts), block)>>
             \o Trace(Exec(mem, Head(stmts)), Tail(stmts), block)

\* mutant: the header checksum left as it was when total_length changes
HeaderUpdateKeepsChecksum(total) == <<SetTotalLength(total)>>

\* lines 384-386, 412-414 and 452-454:
\* ip->total_length = htons(total); ip->header_checksum = 0;
\* ip->header_checksum = compute_checksum(ip, sizeof(struct ipv4_header));
HeaderUpdate(total) ==
    <<SetTotalLength(total), ZeroHeaderChecksum, ComputeHeaderChecksum>>

\* mutant: the old ICMP checksum left in place (no icmp->checksum = 0)
IcmpUpdateWithoutZero(icmp_length) == <<ComputeIcmpChecksum(icmp_length)>>

\* lines 457-459: icmp->checksum = 0;
\* icmp->checksum = compute_checksum(icmp, final_icmp_len)
IcmpUpdate(icmp_length) == <<ZeroIcmpChecksum, ComputeIcmpChecksum(icmp_length)>>

\* mutant: total_length stored in host order
UpdateHeaderHostOrder(mem, total) ==
    StoreHeaderChecksum(Store16(Store16(mem, OFF_TOTAL_LENGTH, total),
                                OFF_HEADER_CHECKSUM, 0))

\* mutant: the old header checksum not zeroed before the recomputation
UpdateHeaderStale(mem, total) ==
    StoreHeaderChecksum(Store16(mem, OFF_TOTAL_LENGTH, htons(total)))

\* ip->total_length = htons(total); ip->header_checksum = 0;
\* ip->header_checksum = compute_checksum(ip, sizeof(struct ipv4_header));
UpdateHeader(mem, total) == Run(mem, HeaderUpdate(total))

\* mutant: the old ICMP checksum not zeroed before the recomputation
UpdateIcmpChecksumStale(mem, icmp_length) == StoreIcmpChecksum(mem, icmp_length)

\* icmp->checksum = 0; icmp->checksum = compute_checksum(icmp, final_icmp_len)
UpdateIcmpChecksum(mem, icmp_length) == Run(mem, IcmpUpdate(icmp_length))

\* mutant: one byte too few copied
memcpy_off_by_one(mem, off, data, n) ==
    [i \in DOMAIN mem |-> IF i >= off /\ i < off + n - 1 THEN data[i - off + 1] ELSE mem[i]]

\* memcpy(payload_ptr, payload_data, payload_len), payload_ptr at offset 28
memcpy(mem, off, data, n) ==
    [i \in DOMAIN mem |-> IF i >= off /\ i < off + n THEN data[i - off + 1] ELSE mem[i]]

PAYLOAD_OFFSET == IPV4_HEADER_SIZE + ICMP_HEADER_SIZE + ICMP_ECHO_SIZE

\* ------------------------------------------------------------------------
\* main(): one action per block of statements between two test messages
\* ------------------------------------------------------------------------
\* lines 138-273: struct ipv4_header packet = {0}, its fields, Tests 3-11
BuildPacket ==
    /\ pc = "start"
    /\ packet' = FillHeader([i \in 0..(IPV4_HEADER_SIZE - 1) |-> 0])
    /\ pc' = PassOrAbort(HeaderAsserts(packet'), "test12")
    /\ UNCHANGED <<packet_buffer, dummy_checksum, odd_checksum, payload_data,
                   payload_len, wire>>
    /\ UNCHANGED history
    /\ UNCHANGED in_vars
    /\ UNCHANGED <<ck_vars, drv_vars, codec_vars>>

\* lines 275-279: Test 12
Test12 ==
    /\ pc = "test12"
    /\ dummy_checksum' = compute_checksum(DummyData, Len(DummyData))
    /\ pc' = PassOrAbort(dummy_checksum' = htons(65277), "test13")
    /\ UNCHANGED <<packet, packet_buffer, odd_checksum, payload_data, payload_len, wire>>
    /\ UNCHANGED history
    /\ UNCHANGED in_vars
    /\ UNCHANGED <<ck_vars, drv_vars, codec_vars>>

\* lines 281-295: Test 13
Test13 ==
    /\ pc = "test13"
    /\ packet' = StoreHeaderChecksum(packet)
    /\ pc' = PassOrAbort(Load16(packet', OFF_HEADER_CHECKSUM) = htons(48631), "packet2")
    /\ UNCHANGED <<packet_buffer, dummy_checksum, odd_checksum, payload_data,
                   payload_len, wire>>
    /\ history' = history \o Trace(packet, <<ComputeHeaderChecksum>>, "packet")
    /\ UNCHANGED in_vars
    /\ UNCHANGED <<ck_vars, drv_vars, codec_vars>>

\* lines 302-361: packet_buffer, the header rebuilt in it and checksummed
BuildPacket2 ==
    /\ pc = "packet2"
    /\ LET filled == FillHeader([i \in 0..(BufSize - 1) |-> 0])
       IN  /\ packet_buffer' = StoreHeaderChecksum(filled)
           /\ pc' = PassOrAbort(/\ HeaderAsserts(filled)
                                /\ Load16(packet_buffer', OFF_HEADER_CHECKSUM) = htons(48631),
                                "icmp")
    /\ UNCHANGED <<packet, dummy_checksum, odd_checksum, payload_data, payload_len, wire>>
    /\ history' = history \o Trace(FillHeader([i \in 0..(BufSize - 1) |-> 0]),
                                     <<ComputeHeaderChecksum>>, "packet2")
    /\ UNCHANGED in_vars
    /\ UNCHANGED <<ck_vars, drv_vars, codec_vars>>

\* lines 366-378: the ICMP header at offset 20, Test 14
BuildIcmpHeader ==
    /\ pc = "icmp"
    /\ LET m1 == Store8(packet_buffer, IPV4_HEADER_SIZE + OFF_ICMP_TYPE, ECHO)
           m2 == Store8(m1, IPV4_HEADER_SIZE + OFF_ICMP_CODE, 0)
       IN  packet_buffer' = Store16(m2, IPV4_HEADER_SIZE + OFF_ICMP_CHECKSUM, htons(0))
    /\ pc' = PassOrAbort(/\ Load8(packet_buffer', IPV4_HEADER_SIZE + OFF_ICMP_TYPE) = ECHO
                         /\ Load8(packet_buffer', IPV4_HEADER_SIZE + OFF_ICMP_CODE) = 0
                         /\ ntohs(Load16(packet_buffer', IPV4_HEADER_SIZE + OFF_ICMP_CHECKSUM)) = 0,
                         "test15")
    /\ UNCHANGED <<packet, dummy_checksum, odd_checksum, payload_data, payload_len, wire>>
    /\ UNCHANGED history
    /\ UNCHANGED in_vars
    /\ UNCHANGED <<ck_vars, drv_vars, codec_vars>>

\* lines 380-392: total_length and header checksum for the ICMP header, Test 15
AttachIcmpHeader ==
    /\ pc = "test15"
    /\ packet_buffer' = UpdateHeader(packet_buffer, IPV4_HEADER_SIZE + ICMP_HEADER_SIZE)
    /\ pc' = PassOrAbort(/\ ntohs(Load16(packet_buffer', OFF_TOTAL_LENGTH)) = 24
                         /\ Load16(packet_buffer', OFF_HEADER_CHECKSUM) # htons(48631),
                         "echo")
    /\ UNCHANGED <<packet, dummy_checksum, odd_checksum, payload_data, payload_len, wire>>
    /\ history' = history \o Trace(packet_buffer,
                                     HeaderUpdate(IPV4_HEADER_SIZE + ICMP_HEADER_SIZE),
                                     "icmp_header")
    /\ UNCHANGED in_vars
    /\ UNCHANGED <<ck_vars, drv_vars, codec_vars>>

\* lines 394-409: the echo struct at offset 24, Test 16
MapEcho ==
    /\ pc = "echo"
    /\ \E identifier \in Identifiers, sequence \in Sequences :
          LET off == IPV4_HEADER_SIZE + ICMP_HEADER_SIZE
              m1 == Store16(packet_buffer, off + OFF_ECHO_IDENTIFIER, htons(identifier))
          IN  packet_buffer' = Store16(m1, off + OFF_ECHO_SEQUENCE, htons(sequence))
    /\ pc' = PassOrAbort(
                LET off == IPV4_HEADER_SIZE + ICMP_HEADER_SIZE
                IN  /\ ntohs(Load16(packet_buffer', off + OFF_ECHO_IDENTIFIER)) = 4660
                    /\ ntohs(Load16(packet_buffer', off + OFF_ECHO_SEQUENCE)) = 1,
                "test17")
    /\ UNCHANGED <<packet, dummy_checksum, odd_checksum, payload_data, payload_len, wire>>
    /\ UNCHANGED history
    /\ UNCHANGED in_vars
    /\ UNCHANGED <<ck_vars, drv_vars, codec_vars>>

\* lines 411-420: total_length and header checksum for the echo struct, Test 17
AttachEcho ==
    /\ pc = "test17"
    /\ packet_buffer' = UpdateHeader(packet_buffer,
                                     IPV4_HEADER_SIZE + ICMP_HEADER_SIZE + ICMP_ECHO_SIZE)
    /\ pc' = PassOrAbort(/\ ntohs(Load16(packet_buffer', OFF_TOTAL_LENGTH)) = 28
                         /\ Load16(packet_buffer', OFF_HEADER_CHECKSUM) # htons(62397),
                         "test18")
    /\ UNCHANGED <<packet, dummy_checksum, odd_checksum, payload_data, payload_len, wire>>
    /\ history' = history \o Trace(packet_buffer,
                                     HeaderUpdate(IPV4_HEADER_SIZE + ICMP_HEADER_SIZE
                                                      + ICMP_ECHO_SIZE),
                                     "echo")
    /\ UNCHANGED in_vars
    /\ UNCHANGED <<ck_vars, drv_vars, codec_vars>>

\* lines 422-429: the ICMP checksum over header + echo struct, Test 18
IcmpChecksum ==
    /\ pc = "test18"
    /\ packet_buffer' = StoreIcmpChecksum(packet_buffer, ICMP_HEADER_SIZE + ICMP_ECHO_SIZE)
    /\ pc' = PassOrAbort(
                Load16(packet_buffer', IPV4_HEADER_SIZE + OFF_ICMP_CHECKSUM) # htons(0),
                "test19")
    /\ UNCHANGED <<packet, dummy_checksum, odd_checksum, payload_data, payload_len, wire>>
    /\ history' = history \o Trace(packet_buffer,
                                     <<ComputeIcmpChecksum(ICMP_HEADER_SIZE + ICMP_ECHO_SIZE)>>,
                                     "echo")
    /\ UNCHANGED in_vars
    /\ UNCHANGED <<ck_vars, drv_vars, codec_vars>>

\* lines 431-436: Test 19
Test19 ==
    /\ pc = "test19"
    /\ odd_checksum' = compute_checksum(OddDummy, Len(OddDummy))
    /\ pc' = PassOrAbort(odd_checksum' = htons(46847), "payload")
    /\ UNCHANGED <<packet, packet_buffer, dummy_checksum, payload_data, payload_len, wire>>
    /\ UNCHANGED history
    /\ UNCHANGED in_vars
    /\ UNCHANGED <<ck_vars, drv_vars, codec_vars>>

\* the assertions of Test 20
Test20Asserts(mem) ==
    /\ ntohs(Load16(mem, OFF_TOTAL_LENGTH)) = 33
    /\ Load16(mem, OFF_HEADER_CHECKSUM) # 0
    /\ Load16(mem, IPV4_HEADER_SIZE + OFF_ICMP_CHECKSUM) # 0

\* lines 438-465 for a payload that fits packet_buffer: memcpy, total_length,
\* header checksum, ICMP checksum, Test 20
AttachPayload ==
    /\ pc = "payload"
    /\ \E data \in Payloads :
          /\ payload_data' = data
          /\ payload_len' = Len(data)
    /\ PAYLOAD_OFFSET + payload_len' <= BufSize
    /\ LET m1 == memcpy(packet_buffer, PAYLOAD_OFFSET, payload_data', payload_len')
           m2 == UpdateHeader(m1, PAYLOAD_OFFSET + payload_len')
       IN  packet_buffer' =
               UpdateIcmpChecksum(m2, ICMP_HEADER_SIZE + ICMP_ECHO_SIZE + payload_len')
    /\ pc' = PassOrAbort(Test20Asserts(packet_buffer'), "dump")
    /\ UNCHANGED <<packet, dummy_checksum, odd_checksum, wire>>
    /\ history' = history \o
           Trace(memcpy(packet_buffer, PAYLOAD_OFFSET, payload_data', payload_len'),
                 HeaderUpdate(PAYLOAD_OFFSET + payload_len')
                     \o IcmpUpdate(ICMP_HEADER_SIZE + ICMP_ECHO_SIZE + payload_len'),
                 "payload")
    /\ UNCHANGED in_vars
    /\ UNCHANGED <<ck_vars, drv_vars, codec_vars>>

\* lines 438-465 for a payload_len that does not fit: memcpy reads past the end
\* of payload_data and writes past the end of packet_buffer, and
\* compute_checksum(icmp, ...) reads past it, which is undefined.  Either the process is killed, or it runs on: the bytes inside the
\* buffer are written, total_length is htons() of the sum converted to uint16_t,
\* the header checksum is computed from the 20 header bytes, and the ICMP
\* checksum is whatever the out-of-bounds reads add up to.
AttachOversizePayload ==
    /\ pc = "payload"
    /\ \E n \in OversizeLens :
          /\ payload_data' = Hello
          /\ payload_len' = n
    /\ PAYLOAD_OFFSET + payload_len' > BufSize
    /\ \/ /\ pc' = "crashed"
          /\ UNCHANGED <<packet_buffer, history>>
       \/ /\ \E g \in GarbageOctets, w \in GarbageWords :
                LET source == [i \in 1..(BufSize - PAYLOAD_OFFSET) |->
                                  IF i <= Len(payload_data') THEN payload_data'[i] ELSE g]
                    m1 == memcpy(packet_buffer, PAYLOAD_OFFSET, source,
                                 BufSize - PAYLOAD_OFFSET)
                    m2 == UpdateHeader(m1, PAYLOAD_OFFSET + payload_len')
                    m3 == Exec(m2, ZeroIcmpChecksum)
                    n == ICMP_HEADER_SIZE + ICMP_ECHO_SIZE + payload_len'
                IN  /\ packet_buffer' = Store16(m3, IPV4_HEADER_SIZE + OFF_ICMP_CHECKSUM, w)
                    /\ history' = history
                          \o Trace(m1, HeaderUpdate(PAYLOAD_OFFSET + payload_len')
                                           \o <<ZeroIcmpChecksum>>, "payload")
                          \o <<[Observe(m3, ZeroIcmpChecksum, "payload")
                                   EXCEPT !.op = "cksum_icmp", !.arg = n,
                                          !.seen = Load16(m3, IPV4_HEADER_SIZE
                                                                + OFF_ICMP_CHECKSUM),
                                          !.stored = w]>>
          /\ pc' = PassOrAbort(Test20Asserts(packet_buffer'), "dump")
    /\ UNCHANGED <<packet, dummy_checksum, odd_checksum, wire>>
    /\ UNCHANGED in_vars
    /\ UNCHANGED <<ck_vars, drv_vars, codec_vars>>

\* lines 467-477: the loop printing the first ntohs(ip->total_length) bytes
Dump ==
    /\ pc = "dump"
    /\ wire' = Region(packet_buffer, 0, ntohs(Load16(packet_buffer, OFF_TOTAL_LENGTH)))
    /\ pc' = "done"
    /\ UNCHANGED <<packet, packet_buffer, dummy_checksum, odd_checksum, payload_data,
                   payload_len>>
    /\ UNCHANGED history
    /\ UNCHANGED in_vars
    /\ UNCHANGED <<ck_vars, drv_vars, codec_vars>>

Next ==
    \/ BuildPacket
    \/ Test12
    \/ Test13
    \/ BuildPacket2
    \/ BuildIcmpHeader
    \/ AttachIcmpHeader
    \/ MapEcho
    \/ AttachEcho
    \/ IcmpChecksum
    \/ Test19
    \/ AttachPayload
    \/ AttachOversizePayload
    \/ Dump

Spec == Init /\ [][Next]_vars

CkNext == CkSumWord \/ CkOddByte \/ CkFold \/ CkReturn

SpecCk == CkInit /\ [][CkNext]_vars

\* ------------------------------------------------------------------------
\* compute_checksum on inputs of up to 65535 bytes, taken up where at most
\* MaxTail bytes are still to be read: sum holds what the words read so far
\* added up to, ck_data the bytes from word_ptr on
\* ------------------------------------------------------------------------
\* the uint32_t holding v
SumOf(v) == [hi |-> v \div U16, lo |-> v % U16]

\* lengths of the inputs: the shortest and the longest
LongLengths == (0..MaxTail) \cup {(U16 - 1) - i : i \in 0..MaxTail}

\* what the sum can be after that many words, each at most 0xFFFF
PrefixSums(words) ==
    {v \in {0, 1, U16 - 1, U16, words * (U16 - 1) - 1, words * (U16 - 1)} :
        v >= 0 /\ v <= words * (U16 - 1)}

CkLongInit ==
    /\ MainStart
    /\ DrvIdle
    /\ CodecIdle
    /\ ndebug = FALSE
    /\ ident = RefIdent
    /\ ttl = RefTtl
    /\ src = Loopback
    /\ dst = Loopback
    /\ \E n \in LongLengths, r \in 0..MaxTail :
          /\ r <= n
          /\ (n - r) % 2 = 0
          /\ ck_ptr = n - r
          /\ ck_length = r
          /\ ck_data \in [(n - r + 1)..n -> CkOctets]
          /\ ck_sum \in {SumOf(v) : v \in PrefixSums((n - r) \div 2)}
    /\ ck_pc = "loop"
    /\ ck_ret = 0

SpecCkLong == CkLongInit /\ [][CkNext]_vars

\* ------------------------------------------------------------------------
\* The header codec: the 20 bytes of a header from its field values, and back
\* ------------------------------------------------------------------------
\* (flags << 13) | fragment_offset: the 16-bit word of the 3-bit flags and the
\* 13-bit fragment offset
PackFlagsFrag(flags, frag_offset) == flags * 8192 + frag_offset

\* the header fields written as main() writes them (lines 155-261), for any
\* field values
EncodeHeader(f) ==
    LET m0 == [i \in 0..(IPV4_HEADER_SIZE - 1) |-> 0]
        m1 == Store8(m0, OFF_VERSION_IHL, PackVersionIhl(f.version, f.ihl))
        m2 == Store8(m1, OFF_TYPE_OF_SERVICE, f.type_of_service)
        m3 == Store16(m2, OFF_TOTAL_LENGTH, htons(f.total_length))
        m4 == Store16(m3, OFF_IDENTIFICATION, htons(f.identification))
        m5 == Store16(m4, OFF_FLAGS_FRAG_OFFSET,
                      htons(PackFlagsFrag(f.flags, f.frag_offset)))
        m6 == Store8(m5, OFF_TIME_TO_LIVE, f.time_to_live)
        m7 == Store8(m6, OFF_PROTOCOL, f.protocol)
        m8 == Store16(m7, OFF_HEADER_CHECKSUM, htons(f.header_checksum))
        m9 == inet_pton(m8, OFF_SRC_ADDR, f.src_addr)
    IN  inet_pton(m9, OFF_DST_ADDR, f.dst_addr)

\* the dotted quad of the four octets at off
inet_ntop(mem, off) == <<mem[off], mem[off + 1], mem[off + 2], mem[off + 3]>>

\* the field values read back: version_ihl >> 4, version_ihl & 0x0F, ntohs of
\* the 16-bit fields, word >> 13 and word & 0x1FFF
DecodeHeader(mem) ==
    [version |-> Load8(mem, OFF_VERSION_IHL) \div 16,
     ihl |-> Load8(mem, OFF_VERSION_IHL) % 16,
     type_of_service |-> Load8(mem, OFF_TYPE_OF_SERVICE),
     total_length |-> ntohs(Load16(mem, OFF_TOTAL_LENGTH)),
     identification |-> ntohs(Load16(mem, OFF_IDENTIFICATION)),
     flags |-> ntohs(Load16(mem, OFF_FLAGS_FRAG_OFFSET)) \div 8192,
     frag_offset |-> ntohs(Load16(mem, OFF_FLAGS_FRAG_OFFSET)) % 8192,
     time_to_live |-> Load8(mem, OFF_TIME_TO_LIVE),
     protocol |-> Load8(mem, OFF_PROTOCOL),
     header_checksum |-> ntohs(Load16(mem, OFF_HEADER_CHECKSUM)),
     src_addr |-> inet_ntop(mem, OFF_SRC_ADDR),
     dst_addr |-> inet_ntop(mem, OFF_DST_ADDR)]

\* the field values of the reference header
RefFields ==
    [version |-> 4, ihl |-> 5, type_of_service |-> 0, total_length |-> 20,
     identification |-> RefIdent, flags |-> 0, frag_offset |-> 0,
     time_to_live |-> RefTtl, protocol |-> IP_PROTO_ICMP, header_checksum |-> 0,
     src_addr |-> Loopback, dst_addr |-> Loopback]

\* values of the 4-bit, 8-bit, 16-bit, 3-bit and 13-bit fields
Nibbles == 0..15
Bytes8 == {0, 1, 127, 128, 255}
Words16 == {0, 1, 20, 255, 256, 48879, 65280, 65535}
Flags3 == 0..7
FragOffsets == {0, 1, 255, 256, 4096, 8191}

\* the valid field assignments enumerated: the reference header with one field
\* (or one packed pair of fields) given every other value
HeaderFields ==
    {[RefFields EXCEPT !.version = v, !.ihl = h] : v \in Nibbles, h \in Nibbles}
    \cup {[RefFields EXCEPT !.flags = g, !.frag_offset = o] : g \in Flags3, o \in FragOffsets}
    \cup {[RefFields EXCEPT !.total_length = w] : w \in Words16}
    \cup {[RefFields EXCEPT !.identification = w] : w \in Words16}
    \cup {[RefFields EXCEPT !.header_checksum = w] : w \in Words16}
    \cup {[RefFields EXCEPT !.type_of_service = b, !.time_to_live = c, !.protocol = d] :
             b \in Bytes8, c \in Bytes8, d \in Bytes8}
    \cup {[RefFields EXCEPT !.src_addr = a, !.dst_addr = b] : a \in Addrs, b \in Addrs}

CodecInit ==
    /\ MainStart
    /\ DrvIdle
    /\ ndebug = FALSE
    /\ ident = RefIdent
    /\ ttl = RefTtl
    /\ src = Loopback
    /\ dst = Loopback
    /\ ck_pc = "idle"
    /\ ck_data = <<>>
    /\ ck_length = 0
    /\ ck_ptr = 0
    /\ ck_sum = ZeroSum
    /\ ck_ret = 0
    /\ hc_pc = "fields"
    /\ hc_fields \in HeaderFields
    /\ hc_bytes = <<>>
    /\ hc_decoded = <<>>

\* the fields written to the 20 bytes
CodecEncode ==
    /\ hc_pc = "fields"
    /\ hc_bytes' = Region(EncodeHeader(hc_fields), 0, IPV4_HEADER_SIZE)
    /\ hc_pc' = "encoded"
    /\ UNCHANGED <<hc_fields, hc_decoded>>
    /\ UNCHANGED <<ck_vars, main_vars, drv_vars>>

\* the fields read back from the 20 bytes
CodecDecode ==
    /\ hc_pc = "encoded"
    /\ hc_decoded' = DecodeHeader([i \in 0..(IPV4_HEADER_SIZE - 1) |-> hc_bytes[i + 1]])
    /\ hc_pc' = "decoded"
    /\ UNCHANGED <<hc_fields, hc_bytes>>
    /\ UNCHANGED <<ck_vars, main_vars, drv_vars>>

CodecNext == CodecEncode \/ CodecDecode

SpecCodec == CodecInit /\ [][CodecNext]_vars

\* ------------------------------------------------------------------------
\* The transport driver: one echo request injected on a raw socket, then the
\* blocking receive loop.  The loop has no deadline: it reads datagrams until
\* one matches.
\* ------------------------------------------------------------------------
\* the datagram built as main() builds it (lines 311-459), for any protocol,
\* ICMP type, identifier, sequence and payload
BuildDatagram(protocol, type, identifier, sequence, data) ==
    LET n == Len(data)
        icmp == IPV4_HEADER_SIZE
        echo == IPV4_HEADER_SIZE + ICMP_HEADER_SIZE
        m0 == FillHeader([i \in 0..(PAYLOAD_OFFSET + n - 1) |-> 0])
        m1 == Store8(m0, OFF_PROTOCOL, protocol)
        m2 == Store8(m1, icmp + OFF_ICMP_TYPE, type)
        m3 == Store8(m2, icmp + OFF_ICMP_CODE, 0)
        m4 == Store16(m3, echo + OFF_ECHO_IDENTIFIER, htons(identifier))
        m5 == Store16(m4, echo + OFF_ECHO_SEQUENCE, htons(sequence))
        m6 == memcpy(m5, PAYLOAD_OFFSET, data, n)
        m7 == UpdateHeader(m6, PAYLOAD_OFFSET + n)
        m8 == UpdateIcmpChecksum(m7, ICMP_HEADER_SIZE + ICMP_ECHO_SIZE + n)
    IN  Region(m8, 0, PAYLOAD_OFFSET + n)

\* the receive buffer as memory addressed from 0
Buffer(bytes) == [i \in 0..(Len(bytes) - 1) |-> bytes[i + 1]]

\* the identifier and sequence the request was built with
RequestIdentifier == request[PAYLOAD_OFFSET - 3] * 256 + request[PAYLOAD_OFFSET - 2]
RequestSequence == request[PAYLOAD_OFFSET - 1] * 256 + request[PAYLOAD_OFFSET]
RequestPayload == SubSeq(request, PAYLOAD_OFFSET + 1, Len(request))

\* mutant: the identifier not compared
MatchesAnyIdentifier(mem) ==
    /\ Load8(mem, OFF_PROTOCOL) = IP_PROTO_ICMP
    /\ Load8(mem, IPV4_HEADER_SIZE + OFF_ICMP_TYPE) = ECHO_REPLY
    /\ ntohs(Load16(mem, IPV4_HEADER_SIZE + ICMP_HEADER_SIZE + OFF_ECHO_SEQUENCE))
          = RequestSequence

\* mutant: the ICMP type not looked at
MatchesAnyType(mem) ==
    /\ Load8(mem, OFF_PROTOCOL) = IP_PROTO_ICMP
    /\ ntohs(Load16(mem, IPV4_HEADER_SIZE + ICMP_HEADER_SIZE + OFF_ECHO_IDENTIFIER))
          = RequestIdentifier
    /\ ntohs(Load16(mem, IPV4_HEADER_SIZE + ICMP_HEADER_SIZE + OFF_ECHO_SEQUENCE))
          = RequestSequence

\* the matching predicate, in the order it is applied: the protocol of the
\* IPv4 header, the type of the ICMP header (an Echo is the request itself
\* looped back), then identifier and sequence of the echo extension
Matches(mem) ==
    /\ Load8(mem, OFF_PROTOCOL) = IP_PROTO_ICMP
    /\ Load8(mem, IPV4_HEADER_SIZE + OFF_ICMP_TYPE) # ECHO
    /\ Load8(mem, IPV4_HEADER_SIZE + OFF_ICMP_TYPE) = ECHO_REPLY
    /\ ntohs(Load16(mem, IPV4_HEADER_SIZE + ICMP_HEADER_SIZE + OFF_ECHO_IDENTIFIER))
          = RequestIdentifier
    /\ ntohs(Load16(mem, IPV4_HEADER_SIZE + ICMP_HEADER_SIZE + OFF_ECHO_SEQUENCE))
          = RequestSequence

\* mutant: everything in the receive buffer after the echo extension
ExtractToEndOfBuffer(mem) ==
    Region(mem, PAYLOAD_OFFSET, Cardinality(DOMAIN mem) - PAYLOAD_OFFSET)

\* the trailing payload bytes: total_length - 28 bytes from offset 28
ExtractPayload(mem) ==
    Region(mem, PAYLOAD_OFFSET, ntohs(Load16(mem, OFF_TOTAL_LENGTH)) - PAYLOAD_OFFSET)

\* mutant: only a socket error looked at, a short write taken for a send
SendOutcomeIgnoresShortWrite(n, length) == IF n < 0 THEN "Failed" ELSE "Listening"

\* what follows a send that returned n for a buffer of length bytes
SendOutcome(n, length) == IF n = length THEN "Listening" ELSE "Failed"

\* what a send may return: an error (-1), a short write, the full length
SendResults(length) == {-1, 0, length - 1, length}

\* payloads of the requests made
DrvPayloads == {Hello, <<>>, <<72>>, <<0, 255>>}

\* an identifier with its two bytes exchanged
SwapBytes(v) == (v % 256) * 256 + (v \div 256)

\* what the raw socket may deliver while the driver listens: the request
\* itself looped back, the reply echoing it (also in a receive buffer with a
\* byte left over behind the datagram), replies and requests of other
\* exchanges, another ICMP type, other protocols
Inbound ==
    LET id == RequestIdentifier
        sq == RequestSequence
        p == RequestPayload
        reply == BuildDatagram(IP_PROTO_ICMP, ECHO_REPLY, id, sq, p)
    IN  {request, reply, reply \o <<255>>}
        \cup {BuildDatagram(IP_PROTO_ICMP, ECHO_REPLY, i, s, p) :
                 i \in Identifiers \cup {SwapBytes(id)},
                 s \in Sequences \cup {SwapBytes(sq)}}
        \cup {BuildDatagram(IP_PROTO_ICMP, ECHO, i, sq, p) : i \in Identifiers}
        \cup {BuildDatagram(IP_PROTO_ICMP, 3, id, sq, p),
              BuildDatagram(IP_PROTO_UDP, ECHO_REPLY, id, sq, p),
              SubSeq(BuildDatagram(IP_PROTO_TCP, ECHO_REPLY, id, sq, <<>>),
                     1, IPV4_HEADER_SIZE)}

DrvInit ==
    /\ MainStart
    /\ CodecIdle
    /\ ndebug = FALSE
    /\ ident = RefIdent
    /\ ttl = RefTtl
    /\ src = Loopback
    /\ dst = Loopback
    /\ ck_pc = "idle"
    /\ ck_data = <<>>
    /\ ck_length = 0
    /\ ck_ptr = 0
    /\ ck_sum = ZeroSum
    /\ ck_ret = 0
    /\ drv_state = "Idle"
    /\ drv_error = "none"
    /\ request \in {BuildDatagram(IP_PROTO_ICMP, ECHO, i, s, p) :
                       i \in Identifiers, s \in Sequences, p \in DrvPayloads}
    /\ network = Inbound
    /\ sends = 0
    /\ sent = 0
    /\ rx = <<>>
    /\ result = <<>>

\* Idle -> Sending: the raw socket is created with IP_HDRINCL, or the
\* creation fails (no privilege)
DrvOpen ==
    /\ drv_state = "Idle"
    /\ \E ok \in BOOLEAN :
          /\ drv_state' = IF ok THEN "Sending" ELSE "Failed"
          /\ drv_error' = IF ok THEN "none" ELSE "TransmitError"
    /\ UNCHANGED <<request, network, sends, sent, rx, result>>
    /\ UNCHANGED <<ck_vars, main_vars, codec_vars>>

\* Sending: the one send of the whole buffer, then Listening, or TransmitError
DrvSend ==
    /\ drv_state = "Sending"
    /\ \E n \in SendResults(Len(request)) :
          /\ sent' = n
          /\ drv_state' = SendOutcome(n, Len(request))
    /\ sends' = sends + 1
    /\ drv_error' = IF drv_state' = "Failed" THEN "TransmitError" ELSE "none"
    /\ UNCHANGED <<request, network, rx, result>>
    /\ UNCHANGED <<ck_vars, main_vars, codec_vars>>

\* Listening: one iteration of the receive loop
DrvReceive ==
    /\ drv_state = "Listening"
    /\ \E d \in network : rx' = d
    /\ IF Matches(Buffer(rx'))
       THEN /\ drv_state' = "Matched"
            /\ result' = ExtractPayload(Buffer(rx'))
       ELSE UNCHANGED <<drv_state, result>>
    /\ UNCHANGED <<drv_error, request, network, sends, sent>>
    /\ UNCHANGED <<ck_vars, main_vars, codec_vars>>

DrvNext == DrvOpen \/ DrvSend \/ DrvReceive

SpecDrv == DrvInit /\ [][DrvNext]_vars

\* the driver keeps running: a single thread with nothing else to schedule
SpecDrvFair == DrvInit /\ [][DrvNext]_vars /\ WF_vars(DrvNext)

\* ------------------------------------------------------------------------
\* The reference algorithm of the specification (RFC 1071), used to state
\* the properties: big-endian 16-bit words, an odd final byte as the high
\* byte of one more word, end-around carry, complement.
\* ------------------------------------------------------------------------
RECURSIVE RefSum(_, _)
RefSum(data, i) ==
    IF i > Len(data) THEN 0
    ELSE (IF i = Len(data) THEN data[i] * 256 ELSE data[i] * 256 + data[i + 1])
         + RefSum(data, i + 2)

RECURSIVE RefFold(_)
RefFold(x) == IF x >= U16 THEN RefFold((x % U16) + (x \div U16)) ELSE x

RefChecksum(data) == (U16 - 1) - RefFold(RefSum(data, 1))

\* the two bytes a little-endian host stores for the uint16_t v
NativeBytes(v) == <<v % 256, v \div 256>>
\* the two bytes of the 16-bit value v in network order
BigEndianBytes(v) == <<v \div 256, v % 256>>
\* the 16-bit value whose network-order bytes are at 1-based index i of data
BigEndianAt(data, i) == data[i] * 256 + data[i + 1]
\* data with the two bytes at 1-based index i replaced
WithBytesAt(data, i, two) ==
    [j \in 1..Len(data) |-> IF j = i THEN two[1] ELSE IF j = i + 1 THEN two[2] ELSE data[j]]

\* the header inputs main() uses
RefHeaderInputs == ident = RefIdent /\ ttl = RefTtl /\ src = Loopback /\ dst = Loopback

\* the declared payload fits the 16-bit total_length
PayloadFits == PAYLOAD_OFFSET + payload_len <= U16 - 1

\* ------------------------------------------------------------------------
\* Properties
\* ------------------------------------------------------------------------
\* C1: for every byte sequence (even, odd or empty) the two bytes
\* compute_checksum's return value occupies when stored natively on the
\* little-endian host are the big-endian bytes of the reference checksum;
\* [FF,00,01,FF,00,02] gives FE FD.
C1_NativeResultIsNetworkOrder ==
    ck_pc = "done" =>
        /\ NativeBytes(ck_ret) = BigEndianBytes(RefChecksum(ck_data))
        /\ (ck_data = DummyData => NativeBytes(ck_ret) = <<254, 253>>)

C1_Witness ==
    /\ ck_pc = "done"
    /\ ck_data = DummyData
    /\ NativeBytes(ck_ret) = <<254, 253>>

\* C2: for every odd-length byte sequence the checksum equals the checksum of
\* the sequence followed by one zero byte; [FF,00,01,FF,48] gives B6 FF.
C2_OddLengthPadsWithZero ==
    (ck_pc = "done" /\ Len(ck_data) % 2 = 1) =>
        /\ ck_ret = compute_checksum(Append(ck_data, 0), Len(ck_data) + 1)
        /\ (ck_data = OddDummy => NativeBytes(ck_ret) = <<182, 255>>)

C2_Witness ==
    /\ ck_pc = "done"
    /\ ck_data = OddDummy
    /\ NativeBytes(ck_ret) = <<182, 255>>
    /\ ck_ret = compute_checksum(Append(OddDummy, 0), 6)

\* even 0-based offsets of ck_data at which a zeroed 16-bit field lies
ZeroFields ==
    {k \in 0..(Len(ck_data) - 2) :
        k % 2 = 0 /\ ck_data[k + 1] = 0 /\ ck_data[k + 2] = 0}

\* C3: self-verification: the checksum computed with the checksum field (at an
\* even offset) zeroed, stored in that field, makes the checksum of the same
\* bytes 0x0000.
C3_SelfVerification ==
    ck_pc = "done" =>
        \A k \in ZeroFields :
            compute_checksum(WithBytesAt(ck_data, k + 1, NativeBytes(ck_ret)),
                             Len(ck_data)) = 0

C3_Witness ==
    /\ ck_pc = "done"
    /\ ck_data = <<255, 1, 0, 0>>
    /\ 2 \in ZeroFields
    /\ ck_ret # 0
    /\ compute_checksum(WithBytesAt(ck_data, 3, NativeBytes(ck_ret)), 4) = 0

\* the statements after Test 13, where packet holds its checksum
AfterTest13 ==
    pc \in {"packet2", "icmp", "test15", "echo", "test17", "test18", "test19",
            "payload", "dump", "done"}
RefHeaderBytes ==
    <<69, 0, 0, 20, 190, 239, 0, 0, 64, 1, 189, 247, 127, 0, 0, 1, 127, 0, 0, 1>>

\* C4: the reference header (version 4, IHL 5, TOS 0, total_length 20,
\* identification 0xBEEF, flags 0, TTL 64, protocol 1, 127.0.0.1 to 127.0.0.1)
\* gets the checksum bytes BD F7 at offsets 10-11.
C4_ReferenceHeaderChecksum ==
    (RefHeaderInputs /\ AfterTest13) =>
        /\ Region(packet, 0, IPV4_HEADER_SIZE) = RefHeaderBytes
        /\ (pc \in {"icmp", "test15"} =>
               Region(packet_buffer, 0, IPV4_HEADER_SIZE) = RefHeaderBytes)

C4_Witness ==
    /\ RefHeaderInputs
    /\ pc = "icmp"
    /\ ~ndebug
    /\ <<packet[10], packet[11]>> = <<189, 247>>
    /\ <<packet_buffer[10], packet_buffer[11]>> = <<189, 247>>

\* C5: for every payload that fits the 16-bit field, the built request has
\* total_length = 20 + 4 + 4 + len(payload) big-endian at offsets 2-3; 33 for
\* HELLO.
C5_TotalLength ==
    (pc \in {"dump", "done"} /\ PayloadFits) =>
        /\ packet_buffer[2] * 256 + packet_buffer[3] = 20 + 4 + 4 + payload_len
        /\ payload_len = Len(payload_data)
        /\ (payload_data = Hello => <<packet_buffer[2], packet_buffer[3]>> = <<0, 33>>)

C5_Witness ==
    /\ pc = "done"
    /\ payload_data = Hello
    /\ payload_len = 5
    /\ <<packet_buffer[2], packet_buffer[3]>> = <<0, 33>>

\* C6: the finished datagram has 0x45 as its first byte, a header checksum
\* that verifies over its first 20 bytes and an ICMP checksum that verifies
\* over every byte from offset 20 to total_length - 1, odd payloads included.
C6_FinishedDatagramVerifies ==
    (pc = "done" /\ PayloadFits) =>
        /\ Len(wire) = PAYLOAD_OFFSET + payload_len
        /\ wire[1] = 69
        /\ Len(wire) = BigEndianAt(wire, 3)
        /\ RefChecksum(SubSeq(wire, 1, IPV4_HEADER_SIZE)) = 0
        /\ RefChecksum(SubSeq(wire, IPV4_HEADER_SIZE + 1, Len(wire))) = 0

C6_Witness ==
    /\ pc = "done"
    /\ payload_len = 1
    /\ payload_data = <<255>>
    /\ Len(wire) = 29
    /\ RefChecksum(SubSeq(wire, IPV4_HEADER_SIZE + 1, Len(wire))) = 0

\* C7 as stated: with the ICMP header and the echo extension attached (no
\* payload) to the reference header, total_length is 24 and the header
\* checksum is no longer BD F7.
C7_Original ==
    (RefHeaderInputs /\ pc = "test18") =>
        /\ BigEndianAt(Region(packet_buffer, 0, IPV4_HEADER_SIZE), 3) = 24
        /\ <<packet_buffer[10], packet_buffer[11]>> # <<189, 247>>

\* C7 amended: attaching the 4-byte ICMP header alone makes total_length 24,
\* attaching the 4-byte echo extension as well makes it 28, and the header
\* checksum recomputed after each differs from BD F7 (it is BD F3, then BD EF).
C7_EncapsulationChangesHeader ==
    RefHeaderInputs =>
        /\ pc \in {"echo", "test17"} =>
              /\ <<packet_buffer[2], packet_buffer[3]>> = <<0, 24>>
              /\ <<packet_buffer[10], packet_buffer[11]>> = <<189, 243>>
        /\ pc \in {"test18", "test19", "payload"} =>
              /\ <<packet_buffer[2], packet_buffer[3]>> = <<0, 28>>
              /\ <<packet_buffer[10], packet_buffer[11]>> = <<189, 239>>

C7_Witness ==
    /\ RefHeaderInputs
    /\ pc = "test18"
    /\ ~ndebug
    /\ <<packet[10], packet[11]>> = <<189, 247>>
    /\ <<packet_buffer[2], packet_buffer[3]>> = <<0, 28>>
    /\ <<packet_buffer[10], packet_buffer[11]>> = <<189, 239>>

IcmpZeroed(n) ==
    WithBytesAt(Region(packet_buffer, IPV4_HEADER_SIZE, n), OFF_ICMP_CHECKSUM + 1, <<0, 0>>)
\* the first 20 bytes of the buffer, checksum field zeroed
HeaderZeroed ==
    WithBytesAt(Region(packet_buffer, 0, IPV4_HEADER_SIZE), OFF_HEADER_CHECKSUM + 1, <<0, 0>>)

\* the buffer with one byte of its IPv4 header (any field: addresses, TTL,
\* identification, header checksum, ...) changed
OtherHeaders ==
    {[packet_buffer EXCEPT ![k] = v] : k \in 0..(IPV4_HEADER_SIZE - 1), v \in {0, 255}}
\* the buffer with one byte of its payload changed (same length)
OtherPayloads ==
    {[packet_buffer EXCEPT ![PAYLOAD_OFFSET + i] = v] :
        i \in 0..(payload_len - 1), v \in PayloadOctets}
IcmpChecksumField(mem) == Load16(mem, IPV4_HEADER_SIZE + OFF_ICMP_CHECKSUM)
HeaderChecksumField(mem) == Load16(mem, OFF_HEADER_CHECKSUM)

\* C9: the stored ICMP checksum is the checksum of the bytes from offset 20 to
\* the end alone: a datagram with the same ICMP message and a different IPv4
\* header gets the same ICMP checksum; the stored header checksum is that of
\* the first 20 bytes alone: another payload of the same length leaves it
\* unchanged.
C9_ChecksumIsolation ==
    /\ pc \in {"test19", "payload"} =>
          /\ <<packet_buffer[22], packet_buffer[23]>>
                = BigEndianBytes(RefChecksum(IcmpZeroed(ICMP_HEADER_SIZE + ICMP_ECHO_SIZE)))
          /\ <<packet_buffer[10], packet_buffer[11]>>
                = BigEndianBytes(RefChecksum(HeaderZeroed))
    /\ (pc \in {"dump", "done"} /\ PayloadFits) =>
          LET icmp_len == ICMP_HEADER_SIZE + ICMP_ECHO_SIZE + payload_len
          IN  /\ <<packet_buffer[22], packet_buffer[23]>>
                    = BigEndianBytes(RefChecksum(IcmpZeroed(icmp_len)))
              /\ <<packet_buffer[10], packet_buffer[11]>>
                    = BigEndianBytes(RefChecksum(HeaderZeroed))
              /\ \A other \in OtherHeaders :
                    IcmpChecksumField(UpdateIcmpChecksum(other, icmp_len))
                        = IcmpChecksumField(packet_buffer)
              /\ \A other \in OtherPayloads :
                    HeaderChecksumField(UpdateHeader(other, PAYLOAD_OFFSET + payload_len))
                        = HeaderChecksumField(packet_buffer)

C9_Witness ==
    /\ pc = "done"
    /\ ~RefHeaderInputs
    /\ ttl # RefTtl
    /\ payload_data = <<72, 255>>
    /\ <<packet_buffer[22], packet_buffer[23]>> = BigEndianBytes(RefChecksum(IcmpZeroed(10)))

DocumentedDump ==
    <<69, 0, 0, 33, 190, 239, 0, 0, 64, 1, 189, 234, 127, 0, 0, 1, 127, 0, 0, 1,
      8, 0, 2, 57, 18, 52, 0, 1, 72, 69, 76, 76, 79>>

\* C10: for the reference inputs the finished datagram is exactly the 33
\* bytes of the documented dump.
C10_DocumentedDump ==
    (/\ pc = "done"
     /\ RefHeaderInputs
     /\ <<packet_buffer[24], packet_buffer[25], packet_buffer[26], packet_buffer[27]>>
           = <<18, 52, 0, 1>>
     /\ payload_data = Hello
     /\ payload_len = 5) => wire = DocumentedDump

C10_Witness ==
    /\ pc = "done"
    /\ ~ndebug
    /\ wire = DocumentedDump

\* the operations of the statements recorded for one block, in order
OpsOf(block) ==
    LET h == SelectSeq(history, LAMBDA e : e.block = block)
    IN  [i \in 1..Len(h) |-> h[i].op]

\* the recorded computations of a checksum
Computations == {i \in 1..Len(history) : history[i].op \in {"cksum_ip", "cksum_icmp"}}

\* main() is past the attaching operation recorded as block
Attached(block) ==
    CASE block = "icmp_header" ->
             pc \in {"echo", "test17", "test18", "test19", "payload", "dump", "done"}
      [] block = "echo" -> pc \in {"test19", "payload", "dump", "done"}
      [] block = "payload" -> pc \in {"dump", "done"}

\* C17: every operation that changes total_length or adds bytes after the
\* IPv4 header (attaching the ICMP header, the echo extension, the payload)
\* performs, in this order: total_length updated, IPv4 header checksum zeroed
\* and recomputed, ICMP checksum zeroed and recomputed over the whole region
\* after the IPv4 header.
C17_RecomputeOnMutation ==
    \A block \in {"icmp_header", "echo", "payload"} :
        Attached(block) =>
            /\ OpsOf(block)
                  = <<"total_length", "zero_ip", "cksum_ip", "zero_icmp", "cksum_icmp">>
            /\ \A i \in Computations :
                  (history[i].block = block /\ history[i].op = "cksum_icmp"
                   /\ history[i].total >= IPV4_HEADER_SIZE)
                      => history[i].arg = history[i].total - IPV4_HEADER_SIZE

\* total_length values between 20 and 65535
TotalLengths == {20, 24, 28, 29, 33, 255, 256, 275, 65535}

\* C19: with all other IPv4 header fields fixed, headers whose total_length
\* values differ (both within 20..65535) have different recomputed header
\* checksums; the checksums stored after each encapsulation step (20, 24, 28,
\* 33 for the reference datagram) are pairwise distinct.
C19_TotalLengthChangesChecksum ==
    /\ \A i, j \in Computations :
          (/\ history[i].op = "cksum_ip" /\ history[j].op = "cksum_ip"
           /\ history[i].total # history[j].total
           /\ history[i].total >= IPV4_HEADER_SIZE
           /\ history[j].total >= IPV4_HEADER_SIZE)
              => history[i].stored # history[j].stored
    /\ AfterTest13 =>
          \A t1, t2 \in TotalLengths :
              t1 # t2 => HeaderChecksumField(UpdateHeader(packet, t1))
                            # HeaderChecksumField(UpdateHeader(packet, t2))
    /\ (pc = "done" /\ RefHeaderInputs /\ payload_data = Hello /\ payload_len = 5) =>
          [i \in 1..5 |-> NativeBytes(SelectSeq(history,
                                                LAMBDA e : e.op = "cksum_ip")[i].stored)]
              = <<<<189, 247>>, <<189, 247>>, <<189, 243>>, <<189, 239>>, <<189, 234>>>>

C19_Witness ==
    /\ pc = "done"
    /\ payload_data = Hello
    /\ payload_len = 5
    /\ {history[i].total : i \in {j \in Computations : history[j].op = "cksum_ip"}}
          = {20, 24, 28, 33}
    /\ Cardinality({history[i].stored :
                       i \in {j \in Computations : history[j].op = "cksum_ip"}}) = 4

\* C20: at every call of compute_checksum in main over an IPv4 header or an
\* ICMP message, the checksum field inside the summed region is zero when the
\* call is made (Test 13's first header checksum and Test 18's ICMP checksum,
\* computed with no explicit re-zeroing, included).
C20_FieldZeroAtEveryCall ==
    \A i \in Computations : history[i].seen = 0

C20_Witness ==
    /\ pc = "done"
    /\ Cardinality(Computations) = 7
    /\ \E i \in Computations :
          /\ history[i].block = "echo"
          /\ history[i].op = "cksum_icmp"
          /\ i > 1 /\ history[i - 1].op = "cksum_ip"
          /\ history[i].seen = 0
          /\ history[i].stored # 0
    /\ \E i \in Computations :
          /\ history[i].block = "payload"
          /\ history[i].op = "cksum_icmp"
          /\ history[i].seen = 0
          /\ packet_buffer[22] * 256 + packet_buffer[23] # 0

\* even 0-based offsets of ck_data at which a 16-bit field holding a nonzero
\* (stale) value lies
StaleFields ==
    {k \in 0..(Len(ck_data) - 2) :
        k % 2 = 0 /\ <<ck_data[k + 1], ck_data[k + 2]>> # <<0, 0>>}

\* ck_data with the field at 0-based offset k zeroed
FieldZeroed(k) == WithBytesAt(ck_data, k + 1, <<0, 0>>)

\* C18 as stated: for any region whose checksum field holds a nonzero stale
\* value, the checksum computed without zeroing the field differs from the
\* checksum computed with the field zeroed.
C18_Original ==
    ck_pc = "done" =>
        \A k \in StaleFields :
            ck_ret # compute_checksum(FieldZeroed(k), Len(ck_data))

\* C18 amended: the two checksums differ, unless the stale value is 0xFFFF and
\* some other byte of the region is nonzero: 0xFFFF is the other zero of
\* one's-complement addition, and the result is then the same.
C18_StaleFieldCorrupts ==
    ck_pc = "done" =>
        \A k \in StaleFields :
            IF /\ <<ck_data[k + 1], ck_data[k + 2]>> = <<255, 255>>
               /\ \E j \in 1..Len(ck_data) : FieldZeroed(k)[j] # 0
            THEN ck_ret = compute_checksum(FieldZeroed(k), Len(ck_data))
            ELSE ck_ret # compute_checksum(FieldZeroed(k), Len(ck_data))

C18_Witness ==
    /\ ck_pc = "done"
    /\ ck_data = <<72, 1, 0, 255>>
    /\ 0 \in StaleFields
    /\ ck_ret # compute_checksum(<<0, 0, 0, 255>>, 4)

\* C16: round-trip law: for all valid field assignments (version and
\* header_length in 0..15 packed as (version << 4) | header_length, 16-bit
\* fields written big-endian, 3-bit flags with a 13-bit fragment offset),
\* decoding the 20-byte encoding of an IPv4 header reproduces every original
\* field value.
C16_RoundTrip ==
    /\ hc_pc \in {"encoded", "decoded"} =>
          /\ Len(hc_bytes) = IPV4_HEADER_SIZE
          /\ hc_bytes[1] = hc_fields.version * 16 + hc_fields.ihl
          /\ <<hc_bytes[3], hc_bytes[4]>> = BigEndianBytes(hc_fields.total_length)
          /\ <<hc_bytes[5], hc_bytes[6]>> = BigEndianBytes(hc_fields.identification)
          /\ <<hc_bytes[7], hc_bytes[8]>>
                = BigEndianBytes(hc_fields.flags * 8192 + hc_fields.frag_offset)
          /\ <<hc_bytes[11], hc_bytes[12]>> = BigEndianBytes(hc_fields.header_checksum)
    /\ hc_pc = "decoded" => hc_decoded = hc_fields

C16_Witness ==
    /\ hc_pc = "decoded"
    /\ hc_fields.version = 15
    /\ hc_fields.ihl = 10
    /\ hc_bytes[1] = 250
    /\ hc_decoded.version = 15
    /\ hc_decoded.ihl = 10

\* received bytes that are an ICMP datagram of the given type, read from the
\* wire: protocol at byte 9, ICMP type at byte 20 (1-based 10 and 21)
IsIcmpOfType(bytes, type) ==
    /\ Len(bytes) >= PAYLOAD_OFFSET
    /\ bytes[10] = 1
    /\ bytes[21] = type

\* received bytes that answer the request: ICMP, EchoReply, identifier and
\* sequence (network order, bytes 24-27) those of the request
AnswersRequest(bytes) ==
    /\ IsIcmpOfType(bytes, 0)
    /\ BigEndianAt(bytes, 25) = BigEndianAt(request, 25)
    /\ BigEndianAt(bytes, 27) = BigEndianAt(request, 27)

\* C11: while the driver is Listening, a received ICMP datagram of type
\* Echo(8), the looped-back copy of the driver's own request included, never
\* leads to Matched and is never surfaced as an error: the driver stays in
\* Listening.
C11_SelfEchoIgnored ==
    [][(drv_state = "Listening" /\ IsIcmpOfType(rx', 8)) =>
          /\ drv_state' = "Listening"
          /\ drv_error' = "none"
          /\ result' = result]_vars

C11_Witness ==
    /\ drv_state = "Listening"
    /\ rx = request
    /\ IsIcmpOfType(rx, 8)
    /\ drv_error = "none"
    /\ result = <<>>

\* C12: the driver reaches Matched only on a datagram whose protocol is ICMP,
\* whose type is EchoReply(0) and whose identifier and sequence both equal the
\* request's; every datagram failing one of these conditions is discarded,
\* the state remaining Listening.
C12_MatchedOnlyOnReply ==
    [][/\ (drv_state' = "Matched" /\ drv_state # "Matched") =>
             (drv_state = "Listening" /\ AnswersRequest(rx'))
       /\ (drv_state = "Listening" /\ ~AnswersRequest(rx')) =>
             (drv_state' = "Listening" /\ drv_error' = "none" /\ result' = result)]_vars

C12_Witness ==
    /\ drv_state = "Listening"
    /\ IsIcmpOfType(rx, 0)
    /\ BigEndianAt(rx, 25) # BigEndianAt(request, 25)
    /\ BigEndianAt(rx, 27) = BigEndianAt(request, 27)
    /\ result = <<>>

\* the reply echoing the documented request: type 0, ICMP checksum 0A 39
DocumentedReply ==
    <<69, 0, 0, 33, 190, 239, 0, 0, 64, 1, 189, 234, 127, 0, 0, 1, 127, 0, 0, 1,
      0, 0, 10, 57, 18, 52, 0, 1, 72, 69, 76, 76, 79>>

\* C13: on a match the driver returns exactly the bytes of the received
\* datagram from offset 28, total_length - 28 of them, total_length being the
\* value of the received IPv4 header; for a reply echoing the reference
\* request the bytes returned are HELLO.
C13_PayloadExtracted ==
    drv_state = "Matched" =>
        /\ Len(result) = BigEndianAt(rx, 3) - 28
        /\ result = SubSeq(rx, 29, BigEndianAt(rx, 3))
        /\ (request = DocumentedDump /\ SubSeq(rx, 1, 33) = DocumentedReply)
              => result = Hello

C13_Witness ==
    /\ drv_state = "Matched"
    /\ request = DocumentedDump
    /\ rx = DocumentedReply
    /\ result = Hello

\* C14: if the send reports a byte count different from the datagram length
\* or a socket error, the request ends in TransmitError: the driver never
\* enters Listening, never reaches Matched, and sends no second time;
\* Listening is only entered after a send of the full buffer.
C14_TransmitError ==
    /\ sends <= 1
    /\ drv_state \in {"Listening", "Matched"} => (sends = 1 /\ sent = Len(request))
    /\ (sends = 1 /\ sent # Len(request)) =>
          /\ drv_state = "Failed"
          /\ drv_error = "TransmitError"
          /\ rx = <<>>
          /\ result = <<>>

C14_Witness ==
    /\ drv_state = "Failed"
    /\ drv_error = "TransmitError"
    /\ sends = 1
    /\ sent = Len(request) - 1
    /\ rx = <<>>

\* C15: from Listening, if no datagram satisfying the matching predicate
\* arrives within the caller's bound (only non-matching datagrams, or none),
\* the driver eventually reaches Timeout and fails with NoReply: it does not
\* remain in Listening forever.
C15_ListeningEnds ==
    (drv_state = "Listening") ~>
        (drv_state = "Matched" \/ (drv_state = "Timeout" /\ drv_error = "NoReply"))

\* the number a uint32_t below 2^31 holds
Value(sum) == sum.hi * U16 + sum.lo

\* C21: for every input of at most 65535 bytes the 32-bit accumulator never
\* wraps (each addition gives the exact sum, which stays below 2^32), the fold
\* loop is over after at most two iterations with a value in 0..0xFFFF, and
\* the value returned is the complement of the end-around-carried sum.
C21_AccumulatorNeverWraps ==
    /\ [](/\ ck_pc \in {"loop", "fold"} => ck_sum.hi < 32768
          /\ ck_pc = "loop" => Value(ck_sum) <= (ck_ptr \div 2) * 65535
          /\ ck_pc = "fold" => FoldOnce(FoldOnce(ck_sum)).hi = 0
          /\ ck_pc = "done" =>
                /\ ck_sum.hi = 0
                /\ ck_ret \in 0..65535
                /\ ck_ret = 65535 - ck_sum.lo)
    /\ [][/\ (ck_pc = "loop" /\ ck_length > 1) =>
                /\ ck_sum'.hi < 32768
                /\ Value(ck_sum')
                      = Value(ck_sum) + ck_data[ck_ptr + 1] + 256 * ck_data[ck_ptr + 2]
          /\ (ck_pc = "loop" /\ ck_length = 1) =>
                /\ ck_sum'.hi < 32768
                /\ Value(ck_sum') = Value(ck_sum) + ck_data[ck_ptr + 1]
          /\ (ck_pc = "fold" /\ ck_pc' = "fold") =>
                /\ Value(ck_sum') < Value(ck_sum)
                /\ RefFold(Value(ck_sum')) = RefFold(Value(ck_sum))
          /\ (ck_pc = "fold" /\ ck_pc' = "done") =>
                ck_ret' = 65535 - RefFold(Value(ck_sum))]_vars

\* the longest input, all of it FF: 32767 words 0xFFFF and the odd byte
\* have been added, and two iterations of the fold loop are needed
C21_Witness ==
    /\ ck_pc = "fold"
    /\ ck_ptr = 65534
    /\ ck_length = 1
    /\ ck_sum = [hi |-> 32766, lo |-> 33024]
    /\ FoldOnce(ck_sum).hi # 0
    /\ FoldOnce(FoldOnce(ck_sum)).hi = 0

====
